---------------------------- MODULE Spec2Model ----------------------------
(***************************************************************************)
(* Model of the multi-account keyword scraper                              *)
(* (src/src/scraper/keywordToolScraper.js).                                *)
(*                                                                         *)
(* scrapeKeywords validates its input, orders the account pool and tries   *)
(* the accounts one after another with tryWithAccount.  Every await of the *)
(* source is a point where the remote site or the browser decides what     *)
(* happens next; those decisions are the nondeterministic choices (\E) of  *)
(* the actions below.  The cookie files are the only state that survives   *)
(* an invocation.                                                          *)
(*                                                                         *)
(* Environment assumption: the file system is reliable, i.e. writeFileSync *)
(* and unlinkSync succeed (the catch branches of saveCookies and           *)
(* deleteCookies only log).  A file may hold text that does not parse.     *)
(***************************************************************************)
EXTENDS Integers, Sequences, FiniteSets, TLC

\* ───────────────────────── bounds of the model ─────────────────────────
\* invocations of scrapeKeywords in one behaviour
MaxRuns == 2
\* rows of the results table the site may show
MaxRows == 2
\* how many entries of config.userAgents the random choice draws from
NumUserAgents == 2

\* ───────────────────────── program constants ───────────────────────────
\* config.keywordToolAccounts lists three accounts before the filter
NumAccounts == 3
\* extractKeywords polls the table at most three times
MaxTableAttempts == 3

PLATFORM_URLS == {"google", "youtube", "instagram", "tiktok", "google-trends"}

\* Infinity of the source (default of maxVolume): a number above every
\* volume a table of the model can show
Infinity == 1000000

\* the three accounts of config.js, before .filter((a) => a.email && a.password)
AllAccounts ==
    [a \in 1..NumAccounts |->
        [email |-> <<"email", a>>, cookieFile |-> <<".kt-cookies", a>>]]

CookieFiles == {AllAccounts[a].cookieFile : a \in 1..NumAccounts}

Emails == {AllAccounts[a].email : a \in 1..NumAccounts}

\* config.userAgents, by index
UserAgents == {<<"ua", k>> : k \in 1..NumUserAgents}

\* ───────────────────────── cookie files ────────────────────────────────
\* a path with no file
NoFile == <<"ENOENT">>

\* undefined / a missing key of an object
Undefined == <<"undefined">>

\* mutant: the identity is left out of the text
JSONStringify_NoUserAgent(data) == <<"{", "cookies", data.cookies, "}">>

\* JSON.stringify({cookies, userAgent}): a key whose value is undefined is
\* left out of the text
JSONStringify(data) ==
    IF data.userAgent = Undefined
    THEN <<"{", "cookies", data.cookies, "}">>
    ELSE <<"{", "cookies", data.cookies, "userAgent", data.userAgent, "}">>

\* JSON.parse: the object the text denotes; anything else throws
JSONParse(text) ==
    IF Len(text) = 6 /\ text[1] = "{" /\ text[2] = "cookies"
                     /\ text[4] = "userAgent" /\ text[6] = "}"
    THEN [ok |-> TRUE,
          value |-> [type |-> "object", cookies |-> text[3], userAgent |-> text[5]]]
    ELSE IF Len(text) = 4 /\ text[1] = "{" /\ text[2] = "cookies" /\ text[4] = "}"
    THEN [ok |-> TRUE,
          value |-> [type |-> "object", cookies |-> text[3], userAgent |-> Undefined]]
    ELSE IF text = <<"{", "}">>
    THEN [ok |-> TRUE,
          value |-> [type |-> "object", cookies |-> Undefined, userAgent |-> Undefined]]
    ELSE [ok |-> FALSE]

\* fs.existsSync
ExistsSync(fs, cookieFile) == fs[cookieFile] # NoFile

\* loadCookies: the parsed object, or null for no file and for a read or
\* parse error
Null == [type |-> "null"]

\* mutant: text that does not parse is handed to the caller as cookies
LoadCookies_HandsOutText(fs, cookieFile) ==
    IF ExistsSync(fs, cookieFile)
    THEN LET parsed == JSONParse(fs[cookieFile])
         IN  IF parsed.ok THEN parsed.value
             ELSE [type |-> "object", cookies |-> fs[cookieFile],
                   userAgent |-> Undefined]
    ELSE Null

LoadCookies(fs, cookieFile) ==
    IF ExistsSync(fs, cookieFile)
    THEN LET parsed == JSONParse(fs[cookieFile])
         IN  IF parsed.ok THEN parsed.value ELSE Null
    ELSE Null

\* saveCookies: the file system after writeFileSync
SaveCookies(fs, cookieFile, cookies, userAgent) ==
    [fs EXCEPT ![cookieFile] =
        JSONStringify([cookies |-> cookies, userAgent |-> userAgent])]

\* mutant: the file is left in place
DeleteCookies_Keeps(fs, cookieFile) == fs

\* deleteCookies: the file system after unlinkSync, when the file exists
DeleteCookies(fs, cookieFile) ==
    IF ExistsSync(fs, cookieFile)
    THEN [fs EXCEPT ![cookieFile] = NoFile]
    ELSE fs

\* what a cookie file may hold before the first invocation: nothing, a
\* record written by saveCookies, or text that does not parse
InitialFileContents ==
    {NoFile,
     <<"{", "truncated">>,
     JSONStringify([cookies |-> <<"old">>, userAgent |-> <<"ua", 1>>])}

\* ───────────────────────── text ────────────────────────────────────────
\* Text is a sequence of one-character strings.
Digits == {"0", "1", "2", "3", "4", "5", "6", "7", "8", "9"}

DigitValue(c) ==
    CASE c = "0" -> 0 [] c = "1" -> 1 [] c = "2" -> 2 [] c = "3" -> 3
      [] c = "4" -> 4 [] c = "5" -> 5 [] c = "6" -> 6 [] c = "7" -> 7
      [] c = "8" -> 8 [] c = "9" -> 9

\* String.prototype.trim
RECURSIVE TrimLeft(_)
TrimLeft(t) ==
    IF t # <<>> /\ Head(t) = " " THEN TrimLeft(Tail(t)) ELSE t

RECURSIVE TrimRight(_)
TrimRight(t) ==
    IF t # <<>> /\ t[Len(t)] = " " THEN TrimRight(SubSeq(t, 1, Len(t) - 1)) ELSE t

Trim(t) == TrimRight(TrimLeft(t))

\* volumeText.replace(/,/g, '').replace(/\s/g, '')
CleanVolume(t) == SelectSeq(t, LAMBDA c : c # "," /\ c # " ")

\* the longest prefix of digits
RECURSIVE DigitPrefix(_)
DigitPrefix(t) ==
    IF t # <<>> /\ Head(t) \in Digits
    THEN <<Head(t)>> \o DigitPrefix(Tail(t))
    ELSE <<>>

RECURSIVE DecimalValue(_)
DecimalValue(ds) ==
    IF ds = <<>> THEN 0
    ELSE 10 * DecimalValue(SubSeq(ds, 1, Len(ds) - 1)) + DigitValue(ds[Len(ds)])

\* parseInt(t, 10): an optional sign, then the longest prefix of digits;
\* NaN when there is no digit
NaN == [nan |-> TRUE]

ParseInt(t) ==
    LET signed == t # <<>> /\ Head(t) \in {"+", "-"}
        rest   == IF signed THEN Tail(t) ELSE t
        ds     == DigitPrefix(rest)
    IN  IF ds = <<>> THEN NaN
        ELSE [nan |-> FALSE,
              value |-> IF signed /\ Head(t) = "-"
                        THEN 0 - DecimalValue(ds) ELSE DecimalValue(ds)]

\* the placeholder of a cell without a value
Dash == <<"-">>

\* ───────────────────────── extraction ──────────────────────────────────
\* A cell of the table: its textContent and the three places the page
\* evaluates for the redaction marker.
IsBlurred(cell) ==
    cell.classBlur \/ cell.htmlBlur \/ cell.childBlur

\* mutant: the text of a redacted volume cell is kept
VolumeText_KeepsLiteral(volCell, isVolumeBlurred) == Trim(volCell.text)

\* volumeText: the trimmed text of the volume cell, or the placeholder when
\* the cell is redacted
VolumeText(volCell, isVolumeBlurred) ==
    IF isVolumeBlurred THEN Dash ELSE Trim(volCell.text)

\* mutant: a redacted trend makes the row unavailable too
IsDataAvailable_BothCells(isVolumeBlurred, isTrendBlurred) ==
    ~isVolumeBlurred /\ ~isTrendBlurred

\* isDataAvailable: !isVolumeBlurred
IsDataAvailable(isVolumeBlurred, isTrendBlurred) == ~isVolumeBlurred

\* the record of one row (the body of rows.forEach), or no record:
\* cells[k] of the source is row.cells[k + 1]
ExtractRow(row) ==
    IF row.colspan THEN <<>>
    ELSE IF Len(row.cells) < 3 THEN <<>>
    ELSE
    LET keyword         == Trim(row.cells[2].text)
        volCell         == row.cells[3]
        hasTrend        == Len(row.cells) > 3
        isVolumeBlurred == IsBlurred(volCell)
        isTrendBlurred  == hasTrend /\ IsBlurred(row.cells[4])
        volumeText      == VolumeText(volCell, isVolumeBlurred)
        trendText       == IF ~hasTrend \/ isTrendBlurred THEN Dash
                           ELSE Trim(row.cells[4].text)
        cleanVolume     == CleanVolume(volumeText)
        searchVolume    ==
            IF volumeText # Dash /\ cleanVolume # <<>> /\ ~ParseInt(cleanVolume).nan
            THEN ParseInt(cleanVolume).value
            ELSE 0
    IN  IF keyword # <<>>
        THEN <<[keyword               |-> keyword,
                searchVolume          |-> searchVolume,
                searchVolumeFormatted |-> volumeText,
                trend                 |-> IF trendText = <<>> THEN Dash ELSE trendText,
                isDataAvailable       |-> IsDataAvailable(isVolumeBlurred,
                                                          isTrendBlurred)]>>
        ELSE <<>>

\* page.evaluate of extractKeywords: the records of the rows, in row order
RECURSIVE ExtractRows(_)
ExtractRows(rows) ==
    IF rows = <<>> THEN <<>>
    ELSE ExtractRow(Head(rows)) \o ExtractRows(Tail(rows))

\* allKeywords.some((kw) => kw.isDataAvailable)
HasAnyRealData(allKeywords) ==
    \E k \in 1..Len(allKeywords) : allKeywords[k].isDataAvailable

\* mutant: the session is saved whenever a row was extracted
SavesAfterExtraction_AnyRow(allKeywords) == Len(allKeywords) > 0

\* mutant: the session is never saved after extraction
SavesAfterExtraction_Never(allKeywords) == FALSE

\* whether tryWithAccount saves the session after extraction
SavesAfterExtraction(allKeywords) ==
    Len(allKeywords) > 0 /\ HasAnyRealData(allKeywords)

\* mutant: the filter tests the lower bound only
ApplyVolumeFilter_MinOnly(allKeywords, minVolume, maxVolume) ==
    SelectSeq(allKeywords, LAMBDA kw : kw.searchVolume >= minVolume)

\* mutant: the filter also drops the records without a volume
ApplyVolumeFilter_DropsRedacted(allKeywords, minVolume, maxVolume) ==
    SelectSeq(allKeywords,
              LAMBDA kw : /\ kw.isDataAvailable
                          /\ kw.searchVolume >= minVolume
                          /\ kw.searchVolume <= maxVolume)

\* allKeywords.filter(...) of the volume filter
ApplyVolumeFilter(allKeywords, minVolume, maxVolume) ==
    SelectSeq(allKeywords,
              LAMBDA kw : kw.searchVolume >= minVolume /\ kw.searchVolume <= maxVolume)

\* the object tryWithAccount returns
BuildResult(account, stats, allKeywords, minVolume, maxVolume) ==
    LET filtered == ApplyVolumeFilter(allKeywords, minVolume, maxVolume)
    IN  [account            |-> account.email,
         totalKeywordsFound |-> Len(allKeywords),
         totalSearchVolume  |-> stats.totalSearchVolume,
         averageTrend       |-> stats.averageTrend,
         filter             |-> [minVolume |-> minVolume,
                                 maxVolume |-> IF maxVolume = Infinity
                                               THEN "unlimited"
                                               ELSE maxVolume],
         filteredCount      |-> Len(filtered),
         keywords           |-> filtered]

\* ───────────────────────── account order ───────────────────────────────
\* mutant: the comparator with its two results swapped
CompareAccounts_Swapped(a, b, fs) ==
    LET aExists == ExistsSync(fs, a.cookieFile)
        bExists == ExistsSync(fs, b.cookieFile)
    IN  IF aExists /\ ~bExists THEN 1
        ELSE IF ~aExists /\ bExists THEN 0 - 1
        ELSE 0

\* the comparator of accounts.sort
CompareAccounts(a, b, fs) ==
    LET aExists == ExistsSync(fs, a.cookieFile)
        bExists == ExistsSync(fs, b.cookieFile)
    IN  IF aExists /\ ~bExists THEN 0 - 1
        ELSE IF ~aExists /\ bExists THEN 1
        ELSE 0

\* Array.prototype.sort is a stable insertion of each element: x goes in
\* front of the first element it compares below
RECURSIVE InsertSorted(_, _, _)
InsertSorted(sorted, x, fs) ==
    IF sorted = <<>> THEN <<x>>
    ELSE IF CompareAccounts(x, Head(sorted), fs) < 0 THEN <<x>> \o sorted
    ELSE <<Head(sorted)>> \o InsertSorted(Tail(sorted), x, fs)

RECURSIVE SortFrom(_, _, _)
SortFrom(sorted, rest, fs) ==
    IF rest = <<>> THEN sorted
    ELSE SortFrom(InsertSorted(sorted, Head(rest), fs), Tail(rest), fs)

\* mutant: the pool is attempted in its configured order
SortAccounts_ConfiguredOrder(pool, fs) == pool

\* accounts.sort((a, b) => ...) of scrapeKeywords
SortAccounts(pool, fs) == SortFrom(<<>>, pool, fs)

\* ───────────────────────── login ───────────────────────────────────────
\* A URL and a page text are the sets of the markers they include.
Includes(text, part) == part \in text

LoginUrl == {"/user/login"}

\* mutant: the early return is taken whenever the Login link is not seen
AlreadyLoggedIn_LinkOnly(isLoginVisible, isUserMenuVisible) == ~isLoginVisible

\* mutant: the early return is never taken
AlreadyLoggedIn_Never(isLoginVisible, isUserMenuVisible) == FALSE

\* the early return of loginIfNeeded: no Login link and a user menu
AlreadyLoggedIn(isLoginVisible, isUserMenuVisible) ==
    ~isLoginVisible /\ isUserMenuVisible

\* the OTP / verification / captcha test of loginIfNeeded
IsChallenge(currentUrl, bodyLower) ==
    \/ Includes(currentUrl, "/otp")
    \/ Includes(currentUrl, "/verify")
    \/ Includes(currentUrl, "/captcha")
    \/ Includes(currentUrl, "/two-factor")
    \/ Includes(bodyLower, "one-time password")
    \/ Includes(bodyLower, "otp")
    \/ Includes(bodyLower, "verification code")
    \/ Includes(bodyLower, "verify your")
    \/ Includes(bodyLower, "too many")
    \/ Includes(bodyLower, "rate limit")
    \/ Includes(bodyLower, "captcha")

\* the "still on login page" test of loginIfNeeded
StillOnLogin(redirected, currentUrl) ==
    ~redirected \/ Includes(currentUrl, "/user/login")

\* mutant: the login page is tested before the challenge
ClassifyLogin_RejectsFirst(redirected, currentUrl, bodyLower) ==
    IF StillOnLogin(redirected, currentUrl) THEN "Rejected"
    ELSE IF IsChallenge(currentUrl, bodyLower) THEN "Challenged"
    ELSE "Authenticated"

\* how the credential flow ends once the form was submitted
ClassifyLogin(redirected, currentUrl, bodyLower) ==
    IF IsChallenge(currentUrl, bodyLower) THEN "Challenged"
    ELSE IF StillOnLogin(redirected, currentUrl) THEN "Rejected"
    ELSE "Authenticated"

\* savedData && savedData.cookies
HasSavedCookies(savedData) ==
    savedData # Null /\ savedData.cookies # Undefined

\* mutant: the context is always opened under the random identity
ContextOptions_AlwaysRandom(savedData, userAgent) ==
    IF HasSavedCookies(savedData)
    THEN [cookies |-> savedData.cookies, userAgent |-> userAgent]
    ELSE [cookies |-> <<>>, userAgent |-> userAgent]

\* contextOptions of tryWithAccount: the cookies and the identity the
\* browser context is opened with
ContextOptions(savedData, userAgent) ==
    IF HasSavedCookies(savedData)
    THEN [cookies   |-> savedData.cookies,
          userAgent |-> IF savedData.userAgent # Undefined
                        THEN savedData.userAgent ELSE userAgent]
    ELSE [cookies |-> <<>>, userAgent |-> userAgent]

\* ───────────────────────── inputs and the site ─────────────────────────
\* the platforms a caller passes ("bing" is not a key of PLATFORM_URLS)
InputPlatforms == {"google", "bing"}

\* the volume filters a caller passes: the defaults and a proper range
InputFilters ==
    {[minVolume |-> 0, maxVolume |-> Infinity], [minVolume |-> 10, maxVolume |-> 100]}

\* every subsequence of AllAccounts: the accounts whose email and password
\* are set in the environment, in configured order
Pools ==
    {SelectSeq(AllAccounts, LAMBDA acc : acc.email \in present) :
        present \in SUBSET Emails}

Cell(text, classBlur, htmlBlur, childBlur) ==
    [text |-> text, classBlur |-> classBlur, htmlBlur |-> htmlBlur,
     childBlur |-> childBlur]

Plain(text) == Cell(text, FALSE, FALSE, FALSE)

\* rows the site may show: a row with a real volume (and a redacted
\* trend), a row whose volume is redacted around literal text, and the
\* spanning "no data" row
SampleRows ==
    {[colspan |-> FALSE,
      cells |-> <<Plain(<<"1">>), Plain(<<" ", "a">>),
                  Plain(<<"1", ",", "2", "0", "0">>),
                  Cell(<<"+", "5", "%">>, TRUE, FALSE, FALSE)>>],
     [colspan |-> FALSE,
      cells |-> <<Plain(<<"2">>), Plain(<<"b">>),
                  Cell(<<"9", "9">>, FALSE, TRUE, TRUE),
                  Plain(<<"+", "1", "%">>)>>],
     [colspan |-> TRUE, cells |-> <<Plain(<<"n", "o">>)>>]}

\* the tables of at least one and at most MaxRows rows
Tables ==
    UNION {[1..n -> SampleRows] : n \in 1..MaxRows}

\* what the statistics pattern match of tryWithAccount may yield
SampleStats ==
    {[totalSearchVolume |-> 1230, averageTrend |-> <<"+", "5", "%">>]}

\* where the browser may be after the login form was submitted
PostLoginUrls ==
    {{"/platform"}, {}, LoginUrl, {"/otp"}, {"/verify"}, {"/captcha"},
     {"/two-factor"}, {"/user/login", "/verify"}}

\* what the page text may include after the login form was submitted
PostLoginBodies ==
    {{}, {"one-time password"}, {"otp"}, {"verification code"},
     {"verify your"}, {"too many"}, {"rate limit"}, {"captcha"}}

\* what the site may answer to the submitted form: whether the wait for
\* the redirect succeeded, the url and the page text; a marker in the url
\* or a marker in the text, on and off the login page
LoginAnswers ==
    {[redirected |-> r, url |-> u, body |-> {}] :
        r \in BOOLEAN, u \in PostLoginUrls}
    \cup {[redirected |-> r, url |-> u, body |-> b] :
        r \in BOOLEAN, u \in {{"/platform"}, LoginUrl}, b \in PostLoginBodies}

\* the cookies of the browser context once the site has answered the
\* login form: the session cookie the site issues replaces what was there
CookiesAfterLogin(cookies) == <<"sid">>

\* ───────────────────────── state ───────────────────────────────────────
VARIABLES
    fs,            \* the cookie files: path -> text, or NoFile
    config,        \* config.keywordToolAccounts
    runs,          \* invocations of scrapeKeywords started so far
    pc,            \* where the current invocation stands
    options,       \* platform, minVolume, maxVolume of the invocation
    accounts,      \* the sorted clone of the pool
    i,             \* loop index of scrapeKeywords (1-based)
    errors,        \* errors of scrapeKeywords
    outcome,       \* how the last invocation ended
    userAgent,     \* tryWithAccount: the random identity
    browser,       \* tryWithAccount: "undefined", "open" or "closed"
    savedData,     \* tryWithAccount: what loadCookies returned
    context,       \* the browser context: its cookies and identity
    page,          \* the page: its url and the two elements loginIfNeeded looks for
    login,         \* loginIfNeeded: state and locals of the login flow
    tableAttempt,  \* extractKeywords: polls made
    stats,         \* tryWithAccount: totalSearchVolume, averageTrend
    allKeywords,   \* tryWithAccount: the extracted records
    exc,           \* the exception tryWithAccount is throwing, or "none"
    result,        \* the value tryWithAccount is returning, or NoResult
    hist,          \* history of the invocation, for the properties only
    peer           \* a second invocation, started by another request

vars ==
    <<fs, config, runs, pc, options, accounts, i, errors, outcome, userAgent,
      browser, savedData, context, page, login, tableAttempt, stats,
      allKeywords, exc, result, hist, peer>>

\* the variables of scrapeKeywords itself
orchVars == <<options, accounts, i, errors, outcome>>

\* the variables of one attempt
attemptVars ==
    <<userAgent, browser, savedData, context, page, login, tableAttempt,
      stats, allKeywords, exc, result>>

NoResult == [account |-> <<"none">>]

NoContext == [cookies |-> <<>>, userAgent |-> Undefined]

BlankPage == [url |-> {}, loginLink |-> FALSE, userMenu |-> FALSE]

NoLogin ==
    [state |-> "Unknown", authShown |-> FALSE, credFlow |-> FALSE,
     redirected |-> FALSE, bodyLower |-> {}, saved |-> FALSE]
\* (authShown, credFlow and saved are history: whether the page showed the
\* authenticated state when loginIfNeeded looked, whether the credential
\* flow was entered, whether loginIfNeeded saved the session)

NoStats == [totalSearchVolume |-> 0, averageTrend |-> Dash]

\* what the invocation before left behind: the accounts whose attempts
\* threw and the account that succeeded with real data, if any
NoPrevious == [threw |-> {}, won |-> <<"none">>]

\* history of an invocation: browsers launched and closed, the accounts
\* attempted in order, the exceptions the attempts threw, the store
\* operations made (path, operation), whether the running attempt
\* saved after extraction, and what the invocation before left behind

NoHist ==
    [opened |-> 0, closed |-> 0, attempted |-> <<>>, thrown |-> <<>>,
     storeOps |-> {}, savedAfter |-> FALSE, previous |-> NoPrevious]

\* no second request has arrived
NoPeer == [pc |-> "idle", accounts |-> <<>>, i |-> 1, lateFor |-> {}]

account == accounts[i]

Init ==
    /\ config \in Pools
    /\ fs \in [CookieFiles -> InitialFileContents]
    /\ \A a \in 1..NumAccounts :
          (\A k \in 1..Len(config) : config[k] # AllAccounts[a])
              => fs[AllAccounts[a].cookieFile] = NoFile
    /\ runs = 0
    /\ pc = "idle"
    /\ options = [platform |-> "google", minVolume |-> 0, maxVolume |-> Infinity]
    /\ accounts = <<>>
    /\ i = 1
    /\ errors = <<>>
    /\ outcome = [kind |-> "none"]
    /\ userAgent = Undefined
    /\ browser = "undefined"
    /\ savedData = Null
    /\ context = NoContext
    /\ page = BlankPage
    /\ login = NoLogin
    /\ tableAttempt = 0
    /\ stats = NoStats
    /\ allKeywords = <<>>
    /\ exc = "none"
    /\ result = NoResult
    /\ hist = NoHist
    /\ peer = NoPeer

\* ───────────────────────── scrapeKeywords ──────────────────────────────
\* mutant: the platform is not validated
IsValidPlatform_Skipped(platform) == TRUE

\* PLATFORM_URLS[platform] is defined
IsValidPlatform(platform) == platform \in PLATFORM_URLS

\* mutant: the empty pool is not detected
NoAccounts_Never(pool) == FALSE

\* !accounts || accounts.length === 0
NoAccounts(pool) == Len(pool) = 0

\* an Error thrown by scrapeKeywords: the head of its message and the
\* per-account parts that follow it
Thrown(kind, details) == [kind |-> "thrown", error |-> kind, details |-> details]

\* errors.map((e) => `${e.account}: ${e.error}`), the parts that
\* join(' | ') strings together
ErrorDetails(errs) == [k \in 1..Len(errs) |-> <<errs[k].account, errs[k].error>>]

\* mutant: the value returned carries the failures collected so far
Returned_WithErrors(value) == [kind |-> "returned", result |-> value, errors |-> errors]

Returned(value) == [kind |-> "returned", result |-> value]

\* the store operations of the sort: the comparator stats both files of
\* every pair it compares, so every file of a pool of two or more
SortStoreOps(pool) ==
    IF Len(pool) < 2 THEN {}
    ELSE {<<pool[k].cookieFile, "exists">> : k \in 1..Len(pool)}

\* scrapeKeywords up to its loop: validate the platform, clone the pool,
\* order it
\* the outcome of the invocation that has just ended, as the next one
\* finds it: kept until the first attempt of the next invocation starts
PreviousInvocation ==
    [threw |-> {errors[k].account : k \in 1..Len(errors)},
     won   |-> IF outcome.kind = "returned" /\ HasAnyRealData(allKeywords)
               THEN outcome.result.account
               ELSE <<"none">>]

Start ==
    /\ pc = "idle"
    /\ runs < MaxRuns
    /\ runs' = runs + 1
    /\ \E platform \in InputPlatforms, filter \in InputFilters :
        options' = [platform  |-> platform,
                    minVolume |-> filter.minVolume,
                    maxVolume |-> filter.maxVolume]
    /\ i' = 1
    /\ errors' = <<>>
    /\ IF ~IsValidPlatform(options'.platform)
       THEN /\ outcome' = Thrown("Invalid platform", <<>>)
            /\ accounts' = <<>>
            /\ hist' = NoHist
            /\ pc' = "idle"
       ELSE IF NoAccounts(config)
       THEN /\ outcome' = Thrown("Tidak ada akun", <<>>)
            /\ accounts' = <<>>
            /\ hist' = NoHist
            /\ pc' = "idle"
       ELSE /\ outcome' = [kind |-> "none"]
            /\ accounts' = SortAccounts(config, fs)
            /\ hist' = [NoHist EXCEPT !.storeOps = SortStoreOps(config),
                                      !.previous = PreviousInvocation]
            /\ pc' = "loop"
    /\ userAgent' = Undefined
    /\ browser' = "undefined"
    /\ savedData' = Null
    /\ context' = NoContext
    /\ page' = BlankPage
    /\ login' = NoLogin
    /\ tableAttempt' = 0
    /\ stats' = NoStats
    /\ allKeywords' = <<>>
    /\ exc' = "none"
    /\ result' = NoResult
    /\ UNCHANGED <<fs, config, peer>>

\* mutant: the attempt takes over the browser session of the one before
NextAccount_KeepsSession ==
    /\ pc = "loop"
    /\ i <= Len(accounts)
    /\ \E ua \in UserAgents : userAgent' = ua
    /\ savedData' = Null
    /\ login' = NoLogin
    /\ tableAttempt' = 0
    /\ stats' = NoStats
    /\ allKeywords' = <<>>
    /\ exc' = "none"
    /\ result' = NoResult
    /\ hist' = [hist EXCEPT !.attempted = Append(@, account.email),
                            !.savedAfter = FALSE,
                            !.previous = NoPrevious]
    /\ pc' = "launch"
    /\ UNCHANGED <<fs, config, peer, runs, orchVars, browser, context, page>>

\* the loop head with an account left: tryWithAccount is called and draws
\* its random identity
NextAccount ==
    /\ pc = "loop"
    /\ i <= Len(accounts)
    /\ \E ua \in UserAgents : userAgent' = ua
    /\ browser' = "undefined"
    /\ savedData' = Null
    /\ context' = NoContext
    /\ page' = BlankPage
    /\ login' = NoLogin
    /\ tableAttempt' = 0
    /\ stats' = NoStats
    /\ allKeywords' = <<>>
    /\ exc' = "none"
    /\ result' = NoResult
    /\ hist' = [hist EXCEPT !.attempted = Append(@, account.email),
                            !.savedAfter = FALSE,
                            !.previous = NoPrevious]
    /\ pc' = "launch"
    /\ UNCHANGED <<fs, config, peer, runs, orchVars>>

\* the loop is over: every account failed
AllAccountsFailed ==
    /\ pc = "loop"
    /\ i > Len(accounts)
    /\ outcome' = Thrown("Semua akun gagal login", ErrorDetails(errors))
    /\ pc' = "idle"
    /\ UNCHANGED <<fs, config, peer, runs, options, accounts, i, errors, attemptVars, hist>>

\* mutant: the loop goes on after a success
ReturnResult_KeepsTrying ==
    /\ pc = "settled"
    /\ exc = "none"
    /\ outcome' = Returned(result)
    /\ i' = i + 1
    /\ pc' = "loop"
    /\ UNCHANGED <<fs, config, peer, runs, options, accounts, errors, attemptVars, hist>>

\* the attempt returned: scrapeKeywords returns its result
ReturnResult ==
    /\ pc = "settled"
    /\ exc = "none"
    /\ outcome' = Returned(result)
    /\ pc' = "idle"
    /\ UNCHANGED <<fs, config, peer, runs, options, accounts, i, errors, attemptVars, hist>>

\* mutant: the catch block keeps the last failure only
CatchAttempt_KeepsLastError ==
    /\ pc = "settled"
    /\ exc # "none"
    /\ fs' = DeleteCookies(fs, account.cookieFile)
    /\ errors' = <<[account |-> account.email, error |-> exc]>>
    /\ i' = i + 1
    /\ hist' = [hist EXCEPT !.storeOps = @ \cup {<<account.cookieFile, "delete">>}]
    /\ pc' = "loop"
    /\ UNCHANGED <<config, peer, runs, options, accounts, outcome, attemptVars>>

\* mutant: the catch block tries the same account again
CatchAttempt_Retries ==
    /\ pc = "settled"
    /\ exc # "none"
    /\ fs' = DeleteCookies(fs, account.cookieFile)
    /\ errors' = Append(errors, [account |-> account.email, error |-> exc])
    /\ hist' = [hist EXCEPT !.storeOps = @ \cup {<<account.cookieFile, "delete">>}]
    /\ pc' = "loop"
    /\ UNCHANGED <<config, peer, runs, options, accounts, i, outcome, attemptVars>>

\* mutant: the catch block clears the cookie files of all accounts
CatchAttempt_ClearsStore ==
    /\ pc = "settled"
    /\ exc # "none"
    /\ fs' = [f \in CookieFiles |-> NoFile]
    /\ errors' = Append(errors, [account |-> account.email, error |-> exc])
    /\ i' = i + 1
    /\ hist' = [hist EXCEPT !.storeOps = @ \cup {<<account.cookieFile, "delete">>}]
    /\ pc' = "loop"
    /\ UNCHANGED <<config, peer, runs, options, accounts, outcome, attemptVars>>

\* mutant: the catch block leaves the cookie file in place
CatchAttempt_NoDelete ==
    /\ pc = "settled"
    /\ exc # "none"
    /\ errors' = Append(errors, [account |-> account.email, error |-> exc])
    /\ i' = i + 1
    /\ pc' = "loop"
    /\ UNCHANGED <<fs, hist, config, peer, runs, options, accounts, outcome, attemptVars>>

\* the attempt threw: the catch block of the loop, and i++
CatchAttempt ==
    /\ pc = "settled"
    /\ exc # "none"
    /\ fs' = DeleteCookies(fs, account.cookieFile)
    /\ errors' = Append(errors, [account |-> account.email, error |-> exc])
    /\ i' = i + 1
    /\ hist' = [hist EXCEPT !.storeOps = @ \cup {<<account.cookieFile, "delete">>}]
    /\ pc' = "loop"
    /\ UNCHANGED <<config, peer, runs, options, accounts, outcome, attemptVars>>

\* ───────────────────────── tryWithAccount ──────────────────────────────
\* an await of the attempt rejects: control goes to the finally block
Throws(reason, h) ==
    /\ exc' = reason
    /\ hist' = [h EXCEPT !.thrown =
                    Append(@, [account |-> account.email, error |-> reason])]
    /\ pc' = "finally"

\* chromium.launch
Launch ==
    /\ pc = "launch"
    /\ \/ /\ browser' = "open"
          /\ hist' = [hist EXCEPT !.opened = @ + 1]
          /\ exc' = exc
          /\ pc' = "context"
       \/ /\ browser' = browser
          /\ Throws("launch", hist)
    /\ UNCHANGED <<fs, config, peer, runs, orchVars, userAgent, savedData, context,
                   page, login, tableAttempt, stats, allKeywords, result>>

\* loadCookies, contextOptions, browser.newContext, context.newPage
NewContext ==
    /\ pc = "context"
    /\ savedData' = LoadCookies(fs, account.cookieFile)
    /\ LET h == [hist EXCEPT !.storeOps = @ \cup {<<account.cookieFile, "load">>}]
       IN  \/ /\ context' = ContextOptions(savedData', userAgent)
              /\ hist' = h
              /\ exc' = exc
              /\ pc' = "goto"
           \/ /\ context' = context
              /\ Throws("newContext", h)
    /\ UNCHANGED <<fs, config, peer, runs, orchVars, userAgent, browser, page, login,
                   tableAttempt, stats, allKeywords, result>>

\* page.goto(platformUrl): the page shows, or not, the Login link and the
\* user menu.  userAgent and savedData are not read after this point and
\* are dropped from the state.
Goto ==
    /\ pc = "goto"
    /\ \/ /\ \E loginLink \in BOOLEAN, userMenu \in BOOLEAN :
                page' = [url |-> {"/platform"}, loginLink |-> loginLink,
                         userMenu |-> userMenu]
          /\ pc' = "loginCheck"
          /\ UNCHANGED <<exc, hist>>
       \/ /\ page' = page
          /\ Throws("goto", hist)
    /\ userAgent' = Undefined
    /\ savedData' = Null
    /\ UNCHANGED <<fs, config, peer, runs, orchVars, browser, context, login,
                   tableAttempt, stats, allKeywords, result>>

\* loginIfNeeded up to its early return
LoginCheck ==
    /\ pc = "loginCheck"
    /\ LET isLoginVisible    == page.loginLink
           isUserMenuVisible == page.userMenu
           shown             == ~page.loginLink /\ page.userMenu
       IN  IF AlreadyLoggedIn(isLoginVisible, isUserMenuVisible)
           THEN /\ login' = [login EXCEPT !.state = "AlreadyAuthenticated",
                                          !.authShown = shown]
                /\ pc' = "search"
           ELSE /\ login' = [login EXCEPT !.state = "SubmittingCredentials",
                                          !.authShown = shown,
                                          !.credFlow = TRUE]
                /\ pc' = "loginSubmit"
    /\ UNCHANGED <<fs, config, peer, runs, orchVars, userAgent, browser, savedData,
                   context, page, tableAttempt, stats, allKeywords, exc,
                   result, hist>>

\* loginIfNeeded: go to the login page, fill the form, submit.  Whatever
\* loginIfNeeded throws is caught by tryWithAccount, which goes on as guest
\* (a failed navigation to the login page ends like a failed fill, without
\* the screenshot).
LoginSubmit ==
    /\ pc = "loginSubmit"
    /\ \/ /\ page' = [url |-> LoginUrl, loginLink |-> FALSE, userMenu |-> FALSE]
          /\ login' = login
          /\ pc' = "loginWait"
       \/ /\ page' = [url |-> LoginUrl, loginLink |-> FALSE, userMenu |-> FALSE]
          /\ login' = [login EXCEPT !.state = "FillFailed"]
          /\ pc' = "search"
    /\ UNCHANGED <<fs, config, peer, runs, orchVars, userAgent, browser, savedData,
                   context, tableAttempt, stats, allKeywords, exc, result, hist>>

\* loginIfNeeded: the wait for the redirect, then the url and the text of
\* the page
LoginWait ==
    /\ pc = "loginWait"
    /\ \E answer \in LoginAnswers :
        /\ login' = [login EXCEPT !.redirected = answer.redirected,
                                  !.bodyLower = answer.body]
        /\ page' = [page EXCEPT !.url = answer.url]
    /\ context' = [context EXCEPT !.cookies = CookiesAfterLogin(@)]
    /\ pc' = "loginClassify"
    /\ UNCHANGED <<fs, config, peer, runs, orchVars, userAgent, browser, savedData,
                   tableAttempt, stats, allKeywords, exc, result, hist>>

\* mutant: loginIfNeeded does not save the session of a successful login
LoginClassify_NoSave ==
    /\ pc = "loginClassify"
    /\ LET state == ClassifyLogin(login.redirected, page.url, login.bodyLower)
       IN  login' = [login EXCEPT !.state = state,
                                  !.redirected = FALSE,
                                  !.bodyLower = {}]
    /\ pc' = "search"
    /\ UNCHANGED <<fs, hist, config, peer, runs, orchVars, userAgent, browser, savedData,
                   context, page, tableAttempt, stats, allKeywords, exc, result>>

\* mutant: tryWithAccount does not catch the error of loginIfNeeded
LoginClassify_Aborts ==
    /\ pc = "loginClassify"
    /\ LET state == ClassifyLogin(login.redirected, page.url, login.bodyLower)
       IN  /\ login' = [login EXCEPT !.state = state,
                                     !.redirected = FALSE,
                                     !.bodyLower = {},
                                     !.saved = (state = "Authenticated")]
           /\ IF state = "Authenticated"
              THEN /\ fs' = SaveCookies(fs, account.cookieFile,
                                        context.cookies, context.userAgent)
                   /\ hist' = [hist EXCEPT !.storeOps =
                                   @ \cup {<<account.cookieFile, "save">>}]
                   /\ exc' = exc
                   /\ pc' = "search"
              ELSE /\ fs' = fs
                   /\ Throws("login", hist)
    /\ UNCHANGED <<config, peer, runs, orchVars, userAgent, browser, savedData,
                   context, page, tableAttempt, stats, allKeywords, result>>

\* loginIfNeeded: challenge, rejection, or success and the save of the
\* session
LoginClassify ==
    /\ pc = "loginClassify"
    /\ LET state == ClassifyLogin(login.redirected, page.url, login.bodyLower)
       IN  /\ login' = [login EXCEPT !.state = state,
                                     !.redirected = FALSE,
                                     !.bodyLower = {},
                                     !.saved = (state = "Authenticated")]
           /\ IF state = "Authenticated"
              THEN /\ fs' = SaveCookies(fs, account.cookieFile,
                                        context.cookies, context.userAgent)
                   /\ hist' = [hist EXCEPT !.storeOps =
                                   @ \cup {<<account.cookieFile, "save">>}]
              ELSE UNCHANGED <<fs, hist>>
    /\ pc' = "search"
    /\ UNCHANGED <<config, peer, runs, orchVars, userAgent, browser, savedData,
                   context, page, tableAttempt, stats, allKeywords, exc, result>>

\* tryWithAccount from the second navigation to the end of the tab switch
Search ==
    /\ pc = "search"
    /\ \/ /\ page' = [url |-> {"/platform", "/search/"}, loginLink |-> FALSE,
                      userMenu |-> FALSE]
          /\ pc' = "stats"
          /\ UNCHANGED <<exc, hist>>
       \/ /\ page' = page
          /\ Throws("search", hist)
    /\ UNCHANGED <<fs, config, peer, runs, orchVars, userAgent, browser, savedData,
                   context, login, tableAttempt, stats, allKeywords, result>>

\* the statistics of the page (an error of the evaluation is swallowed)
ExtractStats ==
    /\ pc = "stats"
    /\ \E st \in SampleStats : stats' = st
    /\ tableAttempt' = 0
    /\ pc' = "poll"
    /\ UNCHANGED <<fs, config, peer, runs, orchVars, userAgent, browser, savedData,
                   context, page, login, allKeywords, exc, result, hist>>

\* extractKeywords: one poll of the table
PollTable ==
    /\ pc = "poll"
    /\ tableAttempt < MaxTableAttempts
    /\ \/ /\ tableAttempt' = 0
          /\ pc' = "evaluate"
       \/ /\ tableAttempt' = tableAttempt + 1
          /\ pc' = "poll"
    /\ UNCHANGED <<fs, config, peer, runs, orchVars, userAgent, browser, savedData,
                   context, page, login, stats, allKeywords, exc, result, hist>>

\* mutant: a table that never shows fails the attempt
NoTable_Throws ==
    /\ pc = "poll"
    /\ tableAttempt >= MaxTableAttempts
    /\ Throws("noTable", hist)
    /\ UNCHANGED <<fs, config, peer, runs, orchVars, userAgent, browser, savedData,
                   context, page, login, tableAttempt, stats, allKeywords, result>>

\* extractKeywords: no poll saw a row, the record set is empty (the count
\* of polls stays as the loop left it)
NoTable ==
    /\ pc = "poll"
    /\ tableAttempt >= MaxTableAttempts
    /\ allKeywords' = <<>>
    /\ tableAttempt' = tableAttempt
    /\ pc' = "finish"
    /\ UNCHANGED <<fs, config, peer, runs, orchVars, userAgent, browser, savedData,
                   context, page, login, stats, exc, result, hist>>

\* extractKeywords: the evaluation of the rows in the page, the page
\* showing one of the given tables
EvaluateFrom(tables) ==
    /\ pc = "evaluate"
    /\ \/ /\ \E rows \in tables : allKeywords' = ExtractRows(rows)
          /\ pc' = "finish"
          /\ UNCHANGED <<exc, hist>>
       \/ /\ allKeywords' = allKeywords
          /\ Throws("evaluate", hist)
    /\ UNCHANGED <<fs, config, peer, runs, orchVars, userAgent, browser, savedData,
                   context, page, login, tableAttempt, stats, result>>

EvaluateTable == EvaluateFrom(Tables)

\* tryWithAccount after extraction: save the session on real data, filter,
\* return
Finish ==
    /\ pc = "finish"
    /\ IF SavesAfterExtraction(allKeywords)
       THEN /\ fs' = SaveCookies(fs, account.cookieFile,
                                 context.cookies, context.userAgent)
            /\ hist' = [hist EXCEPT !.storeOps =
                            @ \cup {<<account.cookieFile, "save">>},
                                    !.savedAfter = TRUE]
       ELSE UNCHANGED <<fs, hist>>
    /\ result' = BuildResult(account, stats, allKeywords,
                             options.minVolume, options.maxVolume)
    /\ pc' = "finally"
    /\ UNCHANGED <<config, peer, runs, orchVars, userAgent, browser, savedData,
                   context, page, login, tableAttempt, stats, allKeywords, exc>>

\* mutant: the browser is closed on the success path only
Finally_Leaks ==
    /\ pc = "finally"
    /\ IF browser = "open" /\ exc = "none"
       THEN /\ browser' = "closed"
            /\ hist' = [hist EXCEPT !.closed = @ + 1]
       ELSE UNCHANGED <<browser, hist>>
    /\ pc' = "settled"
    /\ UNCHANGED <<fs, config, peer, runs, orchVars, userAgent, savedData, context,
                   page, login, tableAttempt, stats, allKeywords, exc, result>>

\* finally { if (browser) await browser.close(); }
Finally ==
    /\ pc = "finally"
    /\ IF browser = "open"
       THEN /\ browser' = "closed"
            /\ hist' = [hist EXCEPT !.closed = @ + 1]
       ELSE UNCHANGED <<browser, hist>>
    /\ pc' = "settled"
    /\ UNCHANGED <<fs, config, peer, runs, orchVars, userAgent, savedData, context,
                   page, login, tableAttempt, stats, allKeywords, exc, result>>

Next ==
    \/ Start
    \/ NextAccount
    \/ AllAccountsFailed
    \/ ReturnResult
    \/ CatchAttempt
    \/ Launch
    \/ NewContext
    \/ Goto
    \/ LoginCheck
    \/ LoginSubmit
    \/ LoginWait
    \/ LoginClassify
    \/ Search
    \/ ExtractStats
    \/ PollTable
    \/ NoTable
    \/ EvaluateTable
    \/ Finish
    \/ Finally

Spec == Init /\ [][Next]_vars

\* ───────────────────────── GET /api/keywords/:platform ─────────────────
\* A message is the sequence of its words; an e-mail address is one word,
\* and so is the message of an exception of the browser automation.
EmailWord == "<email>"

\* message.includes(phrase): the words of the phrase occur in a row
MessageIncludes(message, phrase) ==
    \E k \in 1..(Len(message) - Len(phrase) + 1) :
        SubSeq(message, k, k + Len(phrase) - 1) = phrase

\* errors.map(...).join(' | ') over the parts of the aggregate error
RECURSIVE JoinDetails(_)
JoinDetails(details) ==
    IF details = <<>> THEN <<>>
    ELSE <<EmailWord, ":", Head(details)[2]>>
         \o (IF Len(details) > 1 THEN <<"|">> ELSE <<>>)
         \o JoinDetails(Tail(details))

\* error.message of what scrapeKeywords throws
ErrorMessage(o) ==
    IF o.error = "Invalid platform"
    THEN <<"Invalid", "platform", ":", "Valid", ":", "google", "youtube",
           "instagram", "tiktok", "google-trends">>
    ELSE IF o.error = "Tidak ada akun"
    THEN <<"Tidak", "ada", "akun", "KeywordTool.io", "dikonfigurasi", "di", ".env">>
    ELSE <<"Semua", "akun", "gagal", "login", ".">> \o JoinDetails(o.details)

\* the status code the catch block of the handler derives from the message
StatusCode(message) ==
    IF MessageIncludes(message, <<"OTP">>) \/ MessageIncludes(message, <<"verifikasi">>)
    THEN 503
    ELSE IF MessageIncludes(message, <<"Login", "gagal">>) THEN 401
    ELSE 500

\* the status of the response of the handler whose call of scrapeKeywords
\* ended with outcome o (the handler answers 400 to a platform outside
\* PLATFORM_URLS without calling scrapeKeywords)
ResponseStatus(platform, o) ==
    IF platform \notin PLATFORM_URLS THEN 400
    ELSE IF o.kind = "returned" THEN 200
    ELSE StatusCode(ErrorMessage(o))

\* ───────────────────────── the cookie store on its own ─────────────────
\* loadCookies, saveCookies and deleteCookies called in any order on any
\* account, with no invocation of scrapeKeywords running.

\* cookie jars and identities a caller may hand to saveCookies
SampleCookieJars == {<<>>, <<"old">>, <<"sid">>}

SampleIdentities == UserAgents \cup {Undefined}

\* every variable but fs and config as Init leaves it
AtRest ==
    /\ runs = 0
    /\ pc = "idle"
    /\ options = [platform |-> "google", minVolume |-> 0, maxVolume |-> Infinity]
    /\ accounts = <<>>
    /\ i = 1
    /\ errors = <<>>
    /\ outcome = [kind |-> "none"]
    /\ userAgent = Undefined
    /\ browser = "undefined"
    /\ savedData = Null
    /\ context = NoContext
    /\ page = BlankPage
    /\ login = NoLogin
    /\ tableAttempt = 0
    /\ stats = NoStats
    /\ allKeywords = <<>>
    /\ exc = "none"
    /\ result = NoResult
    /\ hist = NoHist
    /\ peer = NoPeer

InitStore ==
    /\ config = AllAccounts
    /\ fs \in [CookieFiles -> InitialFileContents]
    /\ AtRest

\* the variables the store functions do not touch
storeRest ==
    <<config, runs, pc, orchVars, userAgent, browser, context, page, login,
      tableAttempt, stats, allKeywords, exc, result, hist, peer>>

CallSaveCookies ==
    /\ \E f \in CookieFiles, c \in SampleCookieJars, ua \in SampleIdentities :
          fs' = SaveCookies(fs, f, c, ua)
    /\ UNCHANGED <<savedData, storeRest>>

CallDeleteCookies ==
    /\ \E f \in CookieFiles : fs' = DeleteCookies(fs, f)
    /\ UNCHANGED <<savedData, storeRest>>

CallLoadCookies ==
    /\ \E f \in CookieFiles : savedData' = LoadCookies(fs, f)
    /\ UNCHANGED <<fs, storeRest>>

NextStore ==
    \/ CallSaveCookies
    \/ CallDeleteCookies
    \/ CallLoadCookies

SpecStore == InitStore /\ [][NextStore]_vars

\* ───────────────────────── extraction and filter on their own ──────────
\* One attempt from the evaluation of the table on, over a wider choice of
\* tables and volume filters than the invocations above.

\* keyword cells: plain, and padded with blanks
WideKeywordCells == {Plain(<<"a">>), Plain(<<" ", "b", " ">>)}

\* volume cells: with thousands separator, padded, the placeholder, empty,
\* not a number, digits followed by a letter, signed, and redacted in each
\* of the three ways; every redacted cell has digits as its text
WideVolumeCells ==
    {Plain(<<"1", ",", "2", "0", "0">>), Plain(<<" ", "5", "0", " ">>), Plain(Dash),
     Plain(<<>>), Plain(<<"n", "/", "a">>), Plain(<<"1", "2", "K">>),
     Plain(<<"-", "5">>),
     Cell(<<"9", "9">>, TRUE, FALSE, FALSE), Cell(<<"9", "9">>, FALSE, TRUE, FALSE),
     Cell(<<"7">>, FALSE, FALSE, TRUE)}

\* trend cells: plain and redacted
WideTrendCells == {Plain(<<"+", "5", "%">>), Cell(<<"+", "1", "%">>, FALSE, TRUE, FALSE)}

\* rows of three and of four cells, and the rows that yield no record: the
\* spanning row, a row of two cells, a row whose keyword is blank
WideRows ==
    {[colspan |-> FALSE, cells |-> <<Plain(<<"1">>), kw, vol>>] :
        kw \in WideKeywordCells, vol \in WideVolumeCells}
    \cup {[colspan |-> FALSE, cells |-> <<Plain(<<"1">>), kw, vol, tr>>] :
        kw \in WideKeywordCells, vol \in WideVolumeCells, tr \in WideTrendCells}
    \cup {[colspan |-> TRUE, cells |-> <<Plain(<<"n", "o">>)>>],
          [colspan |-> FALSE, cells |-> <<Plain(<<"1">>), Plain(<<"a">>)>>],
          [colspan |-> FALSE,
           cells |-> <<Plain(<<"1">>), Plain(<<" ">>), Plain(<<"5", "0">>)>>]}

WideTables ==
    UNION {[1..n -> WideRows] : n \in 1..MaxRows}

\* the defaults, ranges that cut below and above, a range whose ends are
\* volumes of the table, an empty range
WideFilters ==
    {[minVolume |-> 0, maxVolume |-> Infinity], [minVolume |-> 10, maxVolume |-> 100],
     [minVolume |-> 50, maxVolume |-> 1200], [minVolume |-> 100, maxVolume |-> 10]}

\* the attempt of the only account of the pool is about to evaluate the
\* table: no cookie file, the page found logged in
InitExtract ==
    /\ config = <<AllAccounts[1]>>
    /\ fs = [f \in CookieFiles |-> NoFile]
    /\ runs = 1
    /\ pc = "evaluate"
    /\ \E filter \in WideFilters :
          options = [platform  |-> "google",
                     minVolume |-> filter.minVolume,
                     maxVolume |-> filter.maxVolume]
    /\ accounts = config
    /\ i = 1
    /\ errors = <<>>
    /\ outcome = [kind |-> "none"]
    /\ userAgent = Undefined
    /\ browser = "open"
    /\ savedData = Null
    /\ context = [cookies |-> <<>>, userAgent |-> <<"ua", 1>>]
    /\ page = [url |-> {"/platform", "/search/"}, loginLink |-> FALSE,
               userMenu |-> FALSE]
    /\ login = [NoLogin EXCEPT !.state = "AlreadyAuthenticated", !.authShown = TRUE]
    /\ tableAttempt = 0
    /\ stats \in SampleStats
    /\ allKeywords = <<>>
    /\ exc = "none"
    /\ result = NoResult
    /\ hist = [NoHist EXCEPT !.opened = 1,
                             !.attempted = <<AllAccounts[1].email>>,
                             !.storeOps = {<<AllAccounts[1].cookieFile, "load">>}]
    /\ peer = NoPeer

EvaluateWideTable == EvaluateFrom(WideTables)

NextExtract ==
    \/ EvaluateWideTable
    \/ Finish
    \/ Finally
    \/ ReturnResult
    \/ CatchAttempt
    \/ AllAccountsFailed

SpecExtract == InitExtract /\ [][NextExtract]_vars

\* ───────────────────────── the opening of the session on its own ───────
\* One invocation over the whole pool up to the first navigation of each
\* attempt, over a wider choice of cookie files.

\* what a cookie file may hold: as above, and a record written without an
\* identity, and an object without cookies
WideFileContents ==
    InitialFileContents
    \cup {JSONStringify([cookies |-> <<"old">>, userAgent |-> Undefined]),
          <<"{", "}">>}

\* scrapeKeywords has ordered the pool and is at the head of its loop
InitOpen ==
    /\ config = AllAccounts
    /\ fs \in [CookieFiles -> WideFileContents]
    /\ runs = 1
    /\ pc = "loop"
    /\ options = [platform |-> "google", minVolume |-> 0, maxVolume |-> Infinity]
    /\ accounts = SortAccounts(config, fs)
    /\ i = 1
    /\ errors = <<>>
    /\ outcome = [kind |-> "none"]
    /\ userAgent = Undefined
    /\ browser = "undefined"
    /\ savedData = Null
    /\ context = NoContext
    /\ page = BlankPage
    /\ login = NoLogin
    /\ tableAttempt = 0
    /\ stats = NoStats
    /\ allKeywords = <<>>
    /\ exc = "none"
    /\ result = NoResult
    /\ hist = [NoHist EXCEPT !.storeOps = SortStoreOps(config)]
    /\ peer = NoPeer

NextOpen ==
    \/ NextAccount
    \/ Launch
    \/ NewContext
    \/ Goto
    \/ Finally
    \/ CatchAttempt
    \/ AllAccountsFailed

SpecOpen == InitOpen /\ [][NextOpen]_vars

\* ───────────────────────── two requests at once ────────────────────────
\* The handler of GET /api/keywords/:platform awaits scrapeKeywords, so a
\* second request starts a second invocation while the first is running;
\* both work on the same pool and the same cookie files, with no lock.
\* The invocation above runs in full; the second one (peer) runs the same
\* code, kept here to the steps that reach the cookie files: the sort, the
\* load of an attempt, the save of loginIfNeeded, the save after
\* extraction and the delete of the catch block.  peer.lateFor is history:
\* the accounts whose attempt by the peer started after the first
\* invocation had saved their session after extraction.
peerAccount == peer.accounts[peer.i]

\* the handler passes a valid platform: scrapeKeywords clones and sorts
\* the pool, or throws at once when the pool is empty
PeerStart ==
    /\ peer.pc = "idle"
    /\ peer' = IF NoAccounts(config)
               THEN [peer EXCEPT !.pc = "done"]
               ELSE [peer EXCEPT !.pc = "loop",
                                 !.accounts = SortAccounts(config, fs),
                                 !.i = 1]
    /\ UNCHANGED <<fs, config, runs, pc, orchVars, attemptVars, hist>>

\* tryWithAccount of the peer up to browser.newContext: loadCookies and
\* contextOptions
PeerNextAccount ==
    /\ peer.pc = "loop"
    /\ peer.i <= Len(peer.accounts)
    /\ \E ua \in UserAgents :
          peer' = [pc       |-> "login",
                   accounts |-> peer.accounts,
                   i        |-> peer.i,
                   context  |-> ContextOptions(
                                   LoadCookies(fs, peerAccount.cookieFile), ua),
                   lateFor  |-> IF /\ hist.savedAfter
                                   /\ i <= Len(accounts)
                                   /\ account.email = peerAccount.email
                                THEN peer.lateFor \cup {peerAccount.email}
                                ELSE peer.lateFor]
    /\ UNCHANGED <<fs, config, runs, pc, orchVars, attemptVars, hist>>

\* loginIfNeeded of the peer: it returns early or ends other than
\* Authenticated (nothing is saved), or ends Authenticated and saves
\* the cookies the site issued
PeerLogin ==
    /\ peer.pc = "login"
    /\ \/ /\ peer' = [peer EXCEPT !.pc = "extract"]
          /\ fs' = fs
       \/ /\ peer' = [peer EXCEPT
                          !.pc = "extract",
                          !.context.cookies = CookiesAfterLogin(@)]
          /\ fs' = SaveCookies(fs, peerAccount.cookieFile,
                               peer'.context.cookies, peer.context.userAgent)
    /\ UNCHANGED <<config, runs, pc, orchVars, attemptVars, hist>>

\* an await of the peer's attempt rejects: the catch block of its
\* scrapeKeywords deletes the cookie file and goes to the next account
PeerCatchAttempt ==
    /\ peer.pc \in {"login", "extract"}
    /\ fs' = DeleteCookies(fs, peerAccount.cookieFile)
    /\ peer' = [pc |-> "loop", accounts |-> peer.accounts, i |-> peer.i + 1,
                lateFor |-> peer.lateFor]
    /\ UNCHANGED <<config, runs, pc, orchVars, attemptVars, hist>>

\* the peer's attempt extracted its records: it saves the session when a
\* record has real data, and its scrapeKeywords returns
PeerFinish ==
    /\ peer.pc = "extract"
    /\ \E hasRealData \in BOOLEAN :
          fs' = IF hasRealData
                THEN SaveCookies(fs, peerAccount.cookieFile,
                                 peer.context.cookies, peer.context.userAgent)
                ELSE fs
    /\ peer' = [pc |-> "done", accounts |-> peer.accounts, i |-> peer.i,
                lateFor |-> peer.lateFor]
    /\ UNCHANGED <<config, runs, pc, orchVars, attemptVars, hist>>

\* the loop of the peer is over: every account failed
PeerAllAccountsFailed ==
    /\ peer.pc = "loop"
    /\ peer.i > Len(peer.accounts)
    /\ peer' = [peer EXCEPT !.pc = "done"]
    /\ UNCHANGED <<fs, config, runs, pc, orchVars, attemptVars, hist>>

\* two accounts are configured and no session has been saved yet; the
\* invocations made so far were given a platform that is not supported,
\* and one more is followed, next to the peer
InitConcurrent ==
    /\ config = <<AllAccounts[1], AllAccounts[2]>>
    /\ fs = [f \in CookieFiles |-> NoFile]
    /\ runs = MaxRuns - 1
    /\ pc = "idle"
    /\ options = [platform |-> "bing", minVolume |-> 0, maxVolume |-> Infinity]
    /\ accounts = <<>>
    /\ i = 1
    /\ errors = <<>>
    /\ outcome = Thrown("Invalid platform", <<>>)
    /\ userAgent = Undefined
    /\ browser = "undefined"
    /\ savedData = Null
    /\ context = NoContext
    /\ page = BlankPage
    /\ login = NoLogin
    /\ tableAttempt = 0
    /\ stats = NoStats
    /\ allKeywords = <<>>
    /\ exc = "none"
    /\ result = NoResult
    /\ hist = NoHist
    /\ peer = NoPeer

NextConcurrent ==
    \/ Start
    \/ NextAccount
    \/ AllAccountsFailed
    \/ ReturnResult
    \/ CatchAttempt
    \/ Launch
    \/ NewContext
    \/ Goto
    \/ LoginCheck
    \/ LoginSubmit
    \/ LoginWait
    \/ LoginClassify
    \/ Search
    \/ ExtractStats
    \/ PollTable
    \/ NoTable
    \/ EvaluateTable
    \/ Finish
    \/ Finally
    \/ PeerStart
    \/ PeerNextAccount
    \/ PeerLogin
    \/ PeerCatchAttempt
    \/ PeerFinish
    \/ PeerAllAccountsFailed

SpecConcurrent == InitConcurrent /\ [][NextConcurrent]_vars

\* ───────────────────────── properties ──────────────────────────────────
\* the emails of a sequence of accounts, in order
EmailsOf(accs) == [k \in 1..Len(accs) |-> accs[k].email]

\* the emails of a sequence of {account, error} entries, in order
AccountsOf(entries) == [k \in 1..Len(entries) |-> entries[k].account]

\* the store operations of the invocation on the slot of accounts[k]
SlotOps(k) == {op \in {"load", "save", "delete"} :
                  <<accounts[k].cookieFile, op>> \in hist.storeOps}

ResultFields ==
    {"account", "totalKeywordsFound", "totalSearchVolume", "averageTrend",
     "filter", "filteredCount", "keywords"}

\* C1: scrapeKeywords returns the result of the first account, in attempt
\* order, whose attempt does not throw: the accounts before it were
\* attempted in order and each threw, result.account is that account, the
\* invocation is over, no later account was attempted (no browser beyond
\* one per attempt, no load, save or delete on a later slot), and the
\* value returned carries none of the collected failures.
C1_FirstSuccessReturned ==
    outcome.kind = "returned" =>
        LET k == Len(hist.attempted)
        IN  /\ pc = "idle"
            /\ k >= 1 /\ k <= Len(accounts) /\ k = i
            /\ hist.attempted = SubSeq(EmailsOf(accounts), 1, k)
            /\ AccountsOf(hist.thrown) = SubSeq(EmailsOf(accounts), 1, k - 1)
            /\ errors = hist.thrown
            /\ outcome.result.account = accounts[k].email
            /\ hist.opened <= k
            /\ \A j \in (k + 1)..Len(accounts) : SlotOps(j) = {}
            /\ DOMAIN outcome = {"kind", "result"}
            /\ DOMAIN outcome.result = ResultFields

\* C1 witness: the third account of the order succeeded after two failures
C1_Witness ==
    /\ outcome.kind = "returned"
    /\ Len(hist.attempted) = 3
    /\ Len(errors) = 2
    /\ outcome.result.account = accounts[3].email

\* C2: when every attempt throws, scrapeKeywords fails with the aggregate
\* error, whose entries are one per account of the pool, in attempt order,
\* each pairing the account with the reason its own attempt threw.
C2_ExhaustionListsEveryAccount ==
    (outcome.kind = "thrown" /\ outcome.error = "Semua akun gagal login") =>
        /\ pc = "idle"
        /\ Len(outcome.details) = Len(config)
        /\ hist.attempted = EmailsOf(accounts)
        /\ \A k \in 1..Len(outcome.details) :
              /\ outcome.details[k][1] = accounts[k].email
              /\ outcome.details[k][1] = hist.thrown[k].account
              /\ outcome.details[k][2] = hist.thrown[k].error
        /\ \A a \in 1..Len(config) :
              \E k \in 1..Len(outcome.details) :
                  outcome.details[k][1] = config[a].email

\* C2 witness: three accounts failed for three different reasons
C2_Witness ==
    /\ outcome.kind = "thrown"
    /\ outcome.error = "Semua akun gagal login"
    /\ Len(outcome.details) = 3
    /\ outcome.details[1][2] = "launch"
    /\ outcome.details[2][2] = "search"
    /\ outcome.details[3][2] = "evaluate"

C4_EmptyPoolIsConfigurationError ==
    (runs > 0 /\ options.platform \in PLATFORM_URLS /\ Len(config) = 0) =>
        /\ pc = "idle"
        /\ outcome = Thrown("Tidak ada akun", <<>>)
        /\ outcome.error # "Semua akun gagal login"
        /\ hist.attempted = <<>>
        /\ hist.opened = 0
        /\ hist.storeOps = {}

\* C4 witness: an invocation over the empty pool ended
C4_Witness ==
    /\ runs > 0
    /\ options.platform = "google"
    /\ Len(config) = 0
    /\ outcome.kind = "thrown"

\* C5: the attempt order is the configured order stably partitioned by the
\* presence of a cookie file when the invocation starts: the accounts with
\* a file first, then those without, each group in configured order.
C5_OrderIsStablePartition ==
    (pc = "loop" /\ hist.attempted = <<>>) =>
        accounts =
            SelectSeq(config, LAMBDA acc : ExistsSync(fs, acc.cookieFile))
            \o SelectSeq(config, LAMBDA acc : ~ExistsSync(fs, acc.cookieFile))

\* C5 witness: the third configured account alone has a file and moved to
\* the front, the other two keeping their order
C5_Witness ==
    /\ pc = "loop"
    /\ hist.attempted = <<>>
    /\ Len(config) = 3
    /\ accounts = <<config[3], config[1], config[2]>>

\* the attempt of accounts[i] is past extraction and is returning, or has
\* returned, a result
AttemptSucceeded ==
    \/ pc \in {"finally", "settled"} /\ exc = "none"
    \/ pc = "idle" /\ outcome.kind = "returned"

\* C6: an attempt whose page shows the authenticated state (no Login link,
\* user menu present) when loginIfNeeded looks never runs the
\* credential-submission flow: it is never at the login page nor at a step
\* of the flow, loginIfNeeded ends AlreadyAuthenticated and saves nothing.
C6_SessionReuseSkipsCredentialFlow ==
    (pc \notin {"idle", "loop", "launch", "context", "goto", "loginCheck"}
        /\ login.authShown) =>
        /\ login.state = "AlreadyAuthenticated"
        /\ ~login.credFlow
        /\ ~login.saved
        /\ pc \notin {"loginSubmit", "loginWait", "loginClassify"}
        /\ ~Includes(page.url, "/user/login")

\* C6 witness: an attempt opened with the persisted cookies and identity
\* found the page authenticated and went on to the search
C6_Witness ==
    /\ pc = "search"
    /\ login.authShown
    /\ login.state = "AlreadyAuthenticated"
    /\ context = [cookies |-> <<"old">>, userAgent |-> <<"ua", 1>>]

C8_RealDataSavesSession ==
    (AttemptSucceeded /\ HasAnyRealData(allKeywords)) =>
        /\ hist.savedAfter
        /\ <<account.cookieFile, "save">> \in hist.storeOps
        /\ ExistsSync(fs, account.cookieFile)
        /\ LoadCookies(fs, account.cookieFile) =
              [type |-> "object", cookies |-> context.cookies,
               userAgent |-> context.userAgent]

\* C8 witness: scrapeKeywords returned real data of an attempt that was
\* opened without cookies and made no login, and the account now has a
\* persisted record
C8_Witness ==
    /\ pc = "idle"
    /\ outcome.kind = "returned"
    /\ HasAnyRealData(allKeywords)
    /\ login.state = "AlreadyAuthenticated"
    /\ context.cookies = <<>>
    /\ ExistsSync(fs, account.cookieFile)

\* C9: once the attempt of an account has thrown and scrapeKeywords has
\* caught it, i.e. before the next account is attempted or the aggregate
\* error is thrown, that account has no persisted record, whatever the
\* failure: a load yields null.
C9_FailureDeletesSession ==
    \A k \in 1..Len(hist.thrown) :
        (k < Len(hist.thrown) \/ pc \notin {"finally", "settled"}) =>
            LET acc == accounts[k]
            IN  /\ acc.email = hist.thrown[k].account
                /\ ~ExistsSync(fs, acc.cookieFile)
                /\ LoadCookies(fs, acc.cookieFile) = Null
                /\ <<acc.cookieFile, "delete">> \in hist.storeOps

\* C9 witness: an attempt saved its session at login, threw afterwards and
\* was caught
C9_Witness ==
    /\ pc = "loop"
    /\ Len(hist.thrown) = 1
    /\ login.saved
    /\ <<accounts[1].cookieFile, "save">> \in hist.storeOps
    /\ ~ExistsSync(fs, accounts[1].cookieFile)

\* C10 as claimed: once scrapeKeywords is done with an attempt whose login
\* ended Rejected or Challenged (it has returned the result of the attempt,
\* or caught its exception), the account of that attempt has no persisted
\* record: a load yields null.
C10_AsClaimed ==
    (pc \in {"idle", "loop"} /\ login.state \in {"Rejected", "Challenged"}) =>
        LET done == IF outcome.kind = "returned" THEN accounts[i] ELSE accounts[i - 1]
        IN  /\ ~ExistsSync(fs, done.cookieFile)
            /\ LoadCookies(fs, done.cookieFile) = Null

\* the steps of an attempt that come after loginIfNeeded
AfterLogin == {"search", "stats", "poll", "evaluate", "finish", "finally", "settled"}

\* C11: an attempt whose login ended Challenged or Rejected is not aborted
\* by it and scrapeKeywords does not move on because of it: the attempt
\* goes on to the search with the browser it opened, the only exceptions
\* it can still throw are those of the steps after the login, and when it
\* throws none its result is returned as the result of that very account.
C11_LoginFailureContinuesAsGuest ==
    login.state \in {"Challenged", "Rejected"} =>
        /\ pc \in AfterLogin \cup {"loop", "idle"}
        /\ exc \in {"none", "search", "evaluate"}
        /\ pc \in {"search", "stats", "poll", "evaluate", "finish"} =>
              /\ browser = "open"
              /\ hist.opened = hist.closed + 1
              /\ exc = "none"
              /\ hist.attempted[Len(hist.attempted)] = account.email
              /\ Len(hist.thrown) = i - 1
        /\ (pc \in {"finally", "settled"} /\ exc = "none") =>
              /\ result.account = account.email
              /\ result.totalKeywordsFound = Len(allKeywords)
        /\ (pc = "idle" /\ exc = "none") =>
              /\ outcome = Returned(result)
              /\ outcome.result.account = accounts[i].email
              /\ Len(hist.attempted) = i

\* C11 witness: the first account met a challenge at login and its guest
\* result, two records, was returned; no other account was attempted
C11_Witness ==
    /\ pc = "idle"
    /\ outcome.kind = "returned"
    /\ login.state = "Challenged"
    /\ Len(config) = 3
    /\ hist.attempted = <<accounts[1].email>>
    /\ outcome.result.totalKeywordsFound = 2

\* C12: the browser of an attempt is closed before scrapeKeywords sees how
\* the attempt ended, on every path; between attempts and when
\* scrapeKeywords has returned or thrown every browser it launched has
\* been closed, and no attempt launches more than one.
C12_BrowserClosedOnEveryPath ==
    /\ hist.opened <= Len(hist.attempted)
    /\ hist.closed <= hist.opened
    /\ browser = "open" => hist.opened = hist.closed + 1
    /\ pc \in {"settled", "loop", "idle"} =>
          /\ browser # "open"
          /\ hist.closed = hist.opened

\* C12 witness: three attempts ended in three ways after the launch (an
\* exception, an exception after a rejected login, a guest success) and
\* the three browsers are closed
C12_Witness ==
    /\ pc = "idle"
    /\ outcome.kind = "returned"
    /\ login.state = "Rejected"
    /\ hist.opened = 3
    /\ hist.closed = 3
    /\ browser = "closed"

\* what loadCookies returns for a record of these cookies and identity
Record(cookies, ua) == [type |-> "object", cookies |-> cookies, userAgent |-> ua]

\* C13: on every state of the cookie files, for every account, cookies and
\* identity: a load after a save yields what was saved and the other
\* files are as before, a second save replaces the first, a load after a
\* delete yields null, and a delete with no file changes nothing.
C13_StoreRoundTrip ==
    \A f \in CookieFiles :
        /\ \A c \in SampleCookieJars, ua \in SampleIdentities :
              LET saved == SaveCookies(fs, f, c, ua)
              IN  /\ LoadCookies(saved, f) = Record(c, ua)
                  /\ \A g \in CookieFiles \ {f} : saved[g] = fs[g]
                  /\ \A c2 \in SampleCookieJars, ua2 \in SampleIdentities :
                        LoadCookies(SaveCookies(saved, f, c2, ua2), f) = Record(c2, ua2)
                  /\ LoadCookies(DeleteCookies(saved, f), f) = Null
        /\ LoadCookies(DeleteCookies(fs, f), f) = Null
        /\ ~ExistsSync(DeleteCookies(fs, f), f)
        /\ ~ExistsSync(fs, f) => DeleteCookies(fs, f) = fs

\* C13 witness: a load returned a record that a save had written over an
\* older record of the same account, identity included
C13_Witness ==
    /\ savedData = Record(<<"sid">>, <<"ua", 2>>)
    /\ LoadCookies(fs, AllAccounts[1].cookieFile) = savedData
    /\ \A f \in CookieFiles \ {AllAccounts[1].cookieFile} :
          LoadCookies(fs, f) = Record(<<"old">>, <<"ua", 1>>)

\* C14: loadCookies hands null to the attempt for a missing file and for a
\* file that does not parse; the attempt then opens its context without
\* cookies, under the identity it drew, and goes on to the navigation
\* without an exception.
C14_LoadNeverFails ==
    \A f \in CookieFiles :
        (~ExistsSync(fs, f) \/ ~JSONParse(fs[f]).ok) =>
            /\ LoadCookies(fs, f) = Null
            /\ (pc = "goto" /\ account.cookieFile = f) =>
                  /\ savedData = Null
                  /\ context.cookies = <<>>
                  /\ context.userAgent = userAgent
                  /\ exc = "none"
                  /\ browser = "open"

\* C14 witness: an attempt whose cookie file does not parse has opened its
\* context without cookies and is about to navigate
C14_Witness ==
    /\ pc = "goto"
    /\ ExistsSync(fs, account.cookieFile)
    /\ ~JSONParse(fs[account.cookieFile]).ok
    /\ savedData = Null
    /\ context.cookies = <<>>

\* the value the attempt of accounts[i] returns, once it has one
ReturnedValue == IF pc = "idle" THEN outcome.result ELSE result

\* the places in allKeywords of the records whose volume is in the range
InRange(lo, hi) ==
    {j \in 1..Len(allKeywords) :
        lo <= allKeywords[j].searchVolume /\ allKeywords[j].searchVolume <= hi}

\* C15: for every volume filter and every extracted record set the
\* keywords returned are the extracted records whose searchVolume is
\* within [minVolume, maxVolume], all of them and only them, in the order
\* of extraction, and filteredCount is their number.
C15_FilterIsExact ==
    AttemptSucceeded =>
        LET S    == InRange(options.minVolume, options.maxVolume)
            kept == ReturnedValue.keywords
        IN  /\ Len(kept) = Cardinality(S)
            /\ ReturnedValue.filteredCount = Len(kept)
            /\ ReturnedValue.totalKeywordsFound = Len(allKeywords)
            /\ \A k \in 1..Len(kept) :
                  /\ options.minVolume <= kept[k].searchVolume
                  /\ kept[k].searchVolume <= options.maxVolume
                  /\ \E j \in S :
                        /\ Cardinality({m \in S : m <= j}) = k
                        /\ kept[k] = allKeywords[j]

\* C15 witness: of two records, the first above the range and the second
\* within, the second alone was returned
C15_Witness ==
    /\ pc = "idle"
    /\ outcome.kind = "returned"
    /\ options.minVolume = 10 /\ options.maxVolume = 100
    /\ Len(allKeywords) = 2
    /\ allKeywords[1].searchVolume = 1200
    /\ allKeywords[2].searchVolume = 50
    /\ outcome.result.keywords = <<allKeywords[2]>>
    /\ outcome.result.filteredCount = 1

\* C16: every record of an extraction whose isDataAvailable is FALSE has
\* searchVolume 0 and the placeholder as its displayed volume, whatever
\* text the redacted cell holds; so has every record returned.
C16_RedactedVolumeIsZero ==
    /\ \A k \in 1..Len(allKeywords) :
          ~allKeywords[k].isDataAvailable =>
              /\ allKeywords[k].searchVolume = 0
              /\ allKeywords[k].searchVolumeFormatted = Dash
    /\ AttemptSucceeded =>
          \A k \in 1..Len(ReturnedValue.keywords) :
              ~ReturnedValue.keywords[k].isDataAvailable =>
                  /\ ReturnedValue.keywords[k].searchVolume = 0
                  /\ ReturnedValue.keywords[k].searchVolumeFormatted = Dash

\* C16 witness: a record of a redacted cell (all of them hold digits), next
\* to a record with a real volume, was returned with volume 0
C16_Witness ==
    /\ pc = "idle"
    /\ outcome.kind = "returned"
    /\ Len(outcome.result.keywords) = 2
    /\ ~outcome.result.keywords[1].isDataAvailable
    /\ outcome.result.keywords[1].searchVolume = 0
    /\ outcome.result.keywords[2].isDataAvailable
    /\ outcome.result.keywords[2].searchVolume = 1200

\* C17: an invocation delivers nothing while it runs and exactly one
\* outcome when it ends: a result, which is the value of the successful
\* attempt and holds no failure of an earlier account, or an error, which
\* holds no result.
C17_ExactlyOneOutcome ==
    /\ outcome.kind \in {"none", "returned", "thrown"}
    /\ pc # "idle" => outcome.kind = "none"
    /\ (pc = "idle" /\ runs > 0) => outcome.kind \in {"returned", "thrown"}
    /\ outcome.kind = "returned" =>
          /\ DOMAIN outcome = {"kind", "result"}
          /\ outcome.result = result
          /\ exc = "none"
          /\ DOMAIN outcome.result = ResultFields
          /\ {"error", "errors", "details"} \cap DOMAIN outcome.result = {}
          /\ \A k \in 1..Len(errors) : errors[k].account # outcome.result.account
    /\ outcome.kind = "thrown" =>
          /\ DOMAIN outcome = {"kind", "error", "details"}
          /\ outcome.error \in {"Invalid platform", "Tidak ada akun",
                                 "Semua akun gagal login"}
          /\ result = NoResult

\* C17 witness: the second account succeeded after the first had failed at
\* the navigation
C17_Witness ==
    /\ pc = "idle"
    /\ outcome.kind = "returned"
    /\ errors = <<[account |-> accounts[1].email, error |-> "goto"]>>
    /\ outcome.result.account = accounts[2].email

\* C18 as claimed, for a pool of one account: when scrapeKeywords fails
\* after the login of the account was rejected the status is 401, after
\* it met a challenge 503, and 500 for every other failure.
C18_AsClaimed ==
    (pc = "idle" /\ outcome.kind = "thrown" /\ Len(accounts) = 1) =>
        LET status == ResponseStatus(options.platform, outcome)
        IN  /\ login.state = "Rejected" => status = 401
            /\ login.state = "Challenged" => status = 503
            /\ login.state \notin {"Rejected", "Challenged"} => status = 500

\* the markers of a challenge in the url and in the text of the page
ChallengeUrlMarkers == {"/otp", "/verify", "/captcha", "/two-factor"}

ChallengeTextMarkers ==
    {"one-time password", "otp", "verification code", "verify your", "too many",
     "rate limit", "captcha"}

\* C19: once the form is submitted the flow always reaches its
\* classification and goes on from it, and the classification is:
\* Challenged when the url or the text of the page carries a challenge
\* marker, whether or not the browser left the login page; otherwise
\* Rejected when the wait for the redirect timed out or the url is still
\* that of the login page; otherwise Authenticated.  A timed-out wait
\* never gives Authenticated.
C19_ClassificationPriority ==
    [][pc = "loginClassify" =>
          LET challenge == \/ page.url \cap ChallengeUrlMarkers # {}
                           \/ login.bodyLower \cap ChallengeTextMarkers # {}
              onLogin   == ~login.redirected \/ "/user/login" \in page.url
          IN  /\ pc' = "search"
              /\ exc' = "none"
              /\ challenge => login'.state = "Challenged"
              /\ (~challenge /\ onLogin) => login'.state = "Rejected"
              /\ (~challenge /\ ~onLogin) => login'.state = "Authenticated"
              /\ ~login.redirected => login'.state # "Authenticated"]_vars

\* C19 witness: the browser stayed on the login page, whose url carries a
\* verification marker, and the login was classified Challenged
C19_Witness ==
    /\ pc = "search"
    /\ login.state = "Challenged"
    /\ page.url = {"/user/login", "/verify"}

\* C20: loginIfNeeded ends AlreadyAuthenticated only when the page showed
\* no Login link and showed the user menu; in the three other cases, the
\* one with neither of the two included, it enters the credential flow.
C20_AuthenticatedNeedsBothSignals ==
    /\ pc = "loginSubmit" =>
          /\ page.loginLink \/ ~page.userMenu
          /\ login.state = "SubmittingCredentials"
          /\ login.credFlow
    /\ (pc = "search" /\ login.state = "AlreadyAuthenticated") =>
          /\ ~page.loginLink /\ page.userMenu
          /\ ~login.credFlow
    /\ pc \in {"loginSubmit", "loginWait", "loginClassify", "search", "stats",
               "poll", "evaluate", "finish"} =>
          /\ login.state = "AlreadyAuthenticated" <=> login.authShown
          /\ login.credFlow <=> ~login.authShown
          /\ login.state # "Unknown"

\* C20 witness: the page showed neither the Login link nor the user menu
\* and the credential flow was entered
C20_Witness ==
    /\ pc = "loginSubmit"
    /\ ~page.loginLink
    /\ ~page.userMenu
    /\ login.state = "SubmittingCredentials"

\* C21: between loginIfNeeded and the end of extraction the account has
\* been saved by loginIfNeeded exactly when the credential flow ended
\* Authenticated, and then its file holds the cookies and the identity of
\* the browser context; after Rejected, Challenged, a failed fill or the
\* early return no save has been made on the file of the account.
C21_LoginSavesOnlyWhenAuthenticated ==
    pc \in {"search", "stats", "poll", "evaluate", "finish"} =>
        /\ login.saved <=> login.state = "Authenticated"
        /\ login.state = "Authenticated" =>
              /\ <<account.cookieFile, "save">> \in hist.storeOps
              /\ LoadCookies(fs, account.cookieFile) =
                    Record(context.cookies, context.userAgent)
        /\ login.state \in {"Rejected", "Challenged", "AlreadyAuthenticated",
                             "FillFailed"} =>
              /\ <<account.cookieFile, "save">> \notin hist.storeOps
              /\ ~hist.savedAfter

\* C21 witness: the login succeeded under the second identity and the
\* record is in the file before the statistics are read
C21_Witness ==
    /\ pc = "stats"
    /\ login.state = "Authenticated"
    /\ allKeywords = <<>>
    /\ LoadCookies(fs, account.cookieFile) = Record(<<"sid">>, <<"ua", 2>>)

\* C22 as claimed: an attempt whose fill or submit of the credential form
\* failed does not go on as guest: it ends with an exception, which
\* scrapeKeywords records under the account before it moves on, and its
\* result is never returned.
C22_AsClaimed ==
    login.state = "FillFailed" =>
        /\ pc \in {"finally", "settled", "loop", "idle"}
        /\ pc \in {"finally", "settled"} => exc # "none"
        /\ pc \in {"loop", "idle"} =>
              /\ outcome.kind # "returned"
              /\ Len(errors) = Len(hist.attempted)

Redacted(cell) == cell.classBlur \/ cell.htmlBlur \/ cell.childBlur

\* the row with its trend cell, if any, replaced by a plain one
WithPlainTrend(row) ==
    IF Len(row.cells) > 3
    THEN [row EXCEPT !.cells[4] = Plain(row.cells[4].text)]
    ELSE row

\* C24: for every row the evaluation may meet that yields a record,
\* isDataAvailable is the negation of the redaction of the volume cell
\* and, like searchVolume,
\* is the same with the trend redacted and with the trend plain; the
\* result counts as real data, and the session is saved after
\* extraction, exactly when some record has isDataAvailable, whatever the
\* trends.
C24_AvailabilityFollowsVolumeOnly ==
    /\ \A row \in WideRows :
          (pc = "evaluate" /\ ExtractRow(row) # <<>>) =>
              LET rec   == ExtractRow(row)[1]
                  plain == ExtractRow(WithPlainTrend(row))[1]
              IN  /\ rec.isDataAvailable = ~Redacted(row.cells[3])
                  /\ rec.isDataAvailable = plain.isDataAvailable
                  /\ rec.searchVolume = plain.searchVolume
                  /\ rec.searchVolumeFormatted = plain.searchVolumeFormatted
    /\ AttemptSucceeded =>
          (hist.savedAfter <=>
              \E k \in 1..Len(allKeywords) : allKeywords[k].isDataAvailable)

\* C24 witness: the one row of the table has its trend redacted and its
\* volume in the clear; its record is available with volume 1200 and the
\* session was saved
C24_Witness ==
    /\ pc = "idle"
    /\ outcome.kind = "returned"
    /\ Len(allKeywords) = 1
    /\ allKeywords[1].isDataAvailable
    /\ allKeywords[1].searchVolume = 1200
    /\ allKeywords[1].trend = Dash
    /\ hist.savedAfter
    /\ ExistsSync(fs, account.cookieFile)
    /\ \E row \in WideRows :
          /\ Len(row.cells) = 4
          /\ Redacted(row.cells[4])
          /\ ~Redacted(row.cells[3])
          /\ ExtractRow(row) = <<allKeywords[1]>>

\* the number of records of a sequence without a volume
Unavailable(kws) == Cardinality({k \in 1..Len(kws) : ~kws[k].isDataAvailable})

\* C25 as claimed: whatever the filter, every record without a volume that
\* was extracted is among the keywords returned.
C25_AsClaimed ==
    AttemptSucceeded =>
        Unavailable(ReturnedValue.keywords) = Unavailable(allKeywords)

\* C25 amended: a row the evaluation may meet, with a keyword and a
\* redacted volume, always yields a record, with searchVolume 0, the placeholder and isDataAvailable FALSE;
\* the record is counted in totalKeywordsFound, and it is among the
\* keywords returned exactly when minVolume <= 0 <= maxVolume.
C25_RedactedRowKeptWhenZeroInRange ==
    /\ \A row \in WideRows :
          (/\ pc = "evaluate"
           /\ ~row.colspan
           /\ Len(row.cells) >= 3
           /\ Trim(row.cells[2].text) # <<>>
           /\ Redacted(row.cells[3])) =>
              /\ Len(ExtractRow(row)) = 1
              /\ ExtractRow(row)[1].keyword = Trim(row.cells[2].text)
              /\ ExtractRow(row)[1].searchVolume = 0
              /\ ExtractRow(row)[1].searchVolumeFormatted = Dash
              /\ ~ExtractRow(row)[1].isDataAvailable
    /\ AttemptSucceeded =>
          /\ ReturnedValue.totalKeywordsFound = Len(allKeywords)
          /\ Unavailable(ReturnedValue.keywords) =
                IF options.minVolume <= 0 /\ 0 <= options.maxVolume
                THEN Unavailable(allKeywords)
                ELSE 0

\* C25 witness: under the default filter the record of a redacted row is
\* all that was extracted and all that was returned
C25_Witness ==
    /\ pc = "idle"
    /\ outcome.kind = "returned"
    /\ options.minVolume = 0
    /\ Len(allKeywords) = 1
    /\ ~allKeywords[1].isDataAvailable
    /\ allKeywords[1].keyword = <<"b">>
    /\ outcome.result.keywords = allKeywords

\* the volume the claim gives a cell: the number its text denotes once the
\* separators and the blanks are removed, 0 when nothing is left, when
\* what is left is not a number, or when the cell is redacted
ClaimedVolume(cell) ==
    LET clean == SelectSeq(cell.text, LAMBDA c : c # "," /\ c # " ")
    IN  IF Redacted(cell) \/ clean = <<>>
           \/ (\E k \in 1..Len(clean) : clean[k] \notin Digits)
        THEN 0
        ELSE DecimalValue(clean)

\* C26 as claimed: every extracted record has a searchVolume that is at
\* least 0 and is the claimed volume of one of the volume cells.
C26_AsClaimed ==
    \A k \in 1..Len(allKeywords) :
        /\ allKeywords[k].searchVolume >= 0
        /\ allKeywords[k].searchVolume \in {ClaimedVolume(c) : c \in WideVolumeCells}

\* C27: at every moment of an invocation at most one browser it launched
\* is open; when an account is about to be attempted every browser
\* launched before is closed and the attempt starts without context and
\* with a blank page; from its launch to its finally block the attempt
\* works in the one browser it launched itself.
C27_OneSessionAtATime ==
    /\ hist.opened - hist.closed \in {0, 1}
    /\ browser = "open" <=> hist.opened = hist.closed + 1
    /\ hist.opened <= Len(hist.attempted)
    /\ pc \in {"loop", "launch"} =>
          /\ browser # "open"
          /\ hist.opened = hist.closed
    /\ pc \in {"launch", "context"} =>
          /\ context = NoContext
          /\ page = BlankPage
          /\ login = NoLogin
    /\ pc \in {"context", "goto", "loginCheck", "loginSubmit", "loginWait",
               "loginClassify", "search", "stats", "poll", "evaluate", "finish"} =>
          /\ browser = "open"
          /\ hist.closed < Len(hist.attempted)

\* C27 witness: the second account has launched its browser after the
\* browser of the first, which had logged in, was closed
C27_Witness ==
    /\ pc = "context"
    /\ Len(hist.attempted) = 2
    /\ hist.opened = 2
    /\ hist.closed = 1
    /\ browser = "open"
    /\ <<accounts[1].cookieFile, "save">> \in hist.storeOps

\* the steps an attempt has left at most, by its place
Rank ==
    CASE pc = "settled" -> 1
      [] pc = "finally" -> 2
      [] pc = "finish" -> 3
      [] pc = "evaluate" -> 4
      [] pc = "poll" -> 5 + (MaxTableAttempts - tableAttempt)
      [] pc = "stats" -> 6 + MaxTableAttempts
      [] pc = "search" -> 7 + MaxTableAttempts
      [] pc = "loginClassify" -> 8 + MaxTableAttempts
      [] pc = "loginWait" -> 9 + MaxTableAttempts
      [] pc = "loginSubmit" -> 10 + MaxTableAttempts
      [] pc = "loginCheck" -> 11 + MaxTableAttempts
      [] pc = "goto" -> 12 + MaxTableAttempts
      [] pc = "context" -> 13 + MaxTableAttempts
      [] pc = "launch" -> 14 + MaxTableAttempts
      [] pc = "loop" -> 15 + MaxTableAttempts
      [] OTHER -> 0

\* the steps the invocation has left at most: those of the attempt under
\* way and a full attempt for every account after it
Variant ==
    IF pc = "idle" THEN 0
    ELSE (Len(accounts) + 1 - i) * (16 + MaxTableAttempts) + Rank

\* C28: every step of a running invocation lowers a bound on the steps it
\* has left, so an invocation whose steps each end does end; it makes at
\* most one attempt per account of the pool, never two on the same
\* account, and the accounts that failed are those attempted before.
C28_TerminatesWithinPool ==
    [][/\ pc # "idle" => (Variant' < Variant /\ Variant' >= 0)
       /\ Len(hist.attempted') <= Len(config)
       /\ \A j, k \in 1..Len(hist.attempted') :
             hist.attempted'[j] = hist.attempted'[k] => j = k
       /\ \A k \in 1..Len(errors') :
             errors'[k].account = hist.attempted'[k]
       /\ i' \in 1..(Len(accounts') + 1)]_vars

\* C28 witness: the invocation ended after one attempt on each of the
\* three accounts, the last of which met a challenge at login
C28_Witness ==
    /\ pc = "idle"
    /\ outcome.kind = "thrown"
    /\ Len(config) = 3
    /\ Len(hist.attempted) = 3
    /\ login.state = "Challenged"
    /\ i = 4

\* C30: when scrapeKeywords has failed with the aggregate error no account
\* of the pool has a cookie file, whatever files there were before and
\* whatever the attempts saved.
C30_ExhaustionClearsEverySession ==
    (pc = "idle" /\ outcome.kind = "thrown"
        /\ outcome.error = "Semua akun gagal login") =>
        \A k \in 1..Len(config) :
            /\ ~ExistsSync(fs, config[k].cookieFile)
            /\ LoadCookies(fs, config[k].cookieFile) = Null
            /\ <<config[k].cookieFile, "delete">> \in hist.storeOps

\* C30 witness: the third configured account had a file and went first;
\* the last account attempted saved its session at login and threw
\* afterwards; no file is left
C30_Witness ==
    /\ pc = "idle"
    /\ outcome.kind = "thrown"
    /\ outcome.error = "Semua akun gagal login"
    /\ Len(config) = 3
    /\ accounts = <<config[3], config[1], config[2]>>
    /\ login.saved
    /\ <<config[2].cookieFile, "save">> \in hist.storeOps
    /\ \A f \in CookieFiles : ~ExistsSync(fs, f)

\* C29: an attempt that has opened its context has it, by the text of the
\* cookie file of its account: with the cookies and the identity of the
\* file when the file holds both; with the cookies of the file and the
\* identity drawn at random when the file holds cookies only; without
\* cookies and with the identity drawn at random when there is no file or
\* the file holds no cookies or does not parse.
C29_ContextFollowsRecord ==
    pc = "goto" =>
        LET text == fs[account.cookieFile]
        IN  /\ (Len(text) = 6 /\ text[2] = "cookies" /\ text[4] = "userAgent") =>
                  context = [cookies |-> text[3], userAgent |-> text[5]]
            /\ (Len(text) = 4 /\ text[2] = "cookies") =>
                  context = [cookies |-> text[3], userAgent |-> userAgent]
            /\ (text \in {NoFile, <<"{", "}">>, <<"{", "truncated">>}) =>
                  context = [cookies |-> <<>>, userAgent |-> userAgent]
            /\ userAgent \in UserAgents
            /\ context.userAgent \in UserAgents

\* C29 witness: the random choice gave the second identity and the context
\* was opened with the cookies and the first identity of the record
C29_Witness ==
    /\ pc = "goto"
    /\ userAgent = <<"ua", 2>>
    /\ savedData = Record(<<"old">>, <<"ua", 1>>)
    /\ context = [cookies |-> <<"old">>, userAgent |-> <<"ua", 1>>]

\* C31: a step changes the cookie file of no account but the one being
\* attempted, and loads, saves or deletes on no other file; within an
\* invocation the order is fixed and the loop only moves forward, so the
\* files of the accounts after the one attempted, hence of those after
\* the first that succeeds, are never loaded, written or deleted.
C31_AttemptTouchesOwnSlotOnly ==
    [][/\ \A f \in CookieFiles :
             fs'[f] # fs[f] =>
                 /\ pc \in {"loginClassify", "finish", "settled"}
                 /\ f = accounts[i].cookieFile
       /\ \A op \in hist'.storeOps \ hist.storeOps :
             op[2] \in {"load", "save", "delete"} =>
                 /\ pc \notin {"idle", "loop"}
                 /\ op[1] = accounts[i].cookieFile
       /\ pc # "idle" => (accounts' = accounts /\ i' >= i)
       /\ \A j \in (i' + 1)..Len(accounts') :
             {op \in {"load", "save", "delete"} :
                 <<accounts'[j].cookieFile, op>> \in hist'.storeOps} = {}]_vars

\* C31 witness: the first of three accounts, whose file did not parse,
\* logged in, got real data and saved its session; the record of the
\* second and the unparseable file of the third are still in place
C31_Witness ==
    /\ pc = "idle"
    /\ runs = 1
    /\ outcome.kind = "returned"
    /\ Len(config) = 3
    /\ i = 1
    /\ hist.savedAfter
    /\ LoadCookies(fs, accounts[1].cookieFile) = Record(<<"sid">>, <<"ua", 2>>)
    /\ LoadCookies(fs, accounts[2].cookieFile) = Record(<<"old">>, <<"ua", 1>>)
    /\ ExistsSync(fs, accounts[3].cookieFile)
    /\ LoadCookies(fs, accounts[3].cookieFile) = Null

\* the place of the account with this email in the order of the invocation
PlaceOf(email) == CHOOSE k \in 1..Len(accounts) : accounts[k].email = email

\* C32: when the invocation before ended with an account that succeeded
\* with real data after other accounts had thrown, the order of this
\* invocation puts that account before each of those that threw; and the
\* attempts of an invocation follow its order.
C32_SavedAccountGoesFirst ==
    /\ Len(hist.attempted) <= Len(accounts)
    /\ hist.attempted = SubSeq(EmailsOf(accounts), 1, Len(hist.attempted))
    /\ (pc = "loop" /\ hist.previous.won # <<"none">>) =>
           /\ hist.attempted = <<>>
           /\ \A a \in hist.previous.threw :
                  PlaceOf(hist.previous.won) < PlaceOf(a)

\* C32 witness: the first configured account threw and the second
\* succeeded with real data; the second invocation has the second
\* configured account first and the first one after it
C32_Witness ==
    /\ runs = 2
    /\ pc = "loop"
    /\ Len(config) = 3
    /\ hist.previous.threw = {config[1].email}
    /\ hist.previous.won = config[2].email
    /\ accounts = <<config[2], config[1], config[3]>>

\* C33 (as stated, for a save of the first of two invocations running at
\* once): when both have ended, the account whose session the first one
\* saved after extraction, and which the second did not start to attempt
\* after that save, still has its cookie file.
C33_AsClaimed ==
    (/\ pc = "idle"
     /\ outcome.kind = "returned"
     /\ hist.savedAfter
     /\ peer.pc = "done"
     /\ account.email \notin peer.lateFor)
        => ExistsSync(fs, account.cookieFile)


=============================================================================
